---- MODULE Spec2Model ----
(***************************************************************************)
(* Model of the Airtable formula formatter: the layout lexer (tokenize),   *)
(* the pretty-printer (formatAirtableFormula) and the display lexer        *)
(* (highlightAirtableFormula).                                             *)
(*                                                                         *)
(* A JavaScript string is a sequence of one-character strings.  Cursors    *)
(* are 0-based as in the source, so formula[i] of the source is            *)
(* formula[i + 1] here (CharAt).                                           *)
(***************************************************************************)
EXTENDS Integers, Sequences, FiniteSets, TLC

VARIABLES formula, pc, i, htokens, tokens, result, indentLevel, isMultiLine, output

vars ==
  <<formula, pc, i, htokens, tokens, result, indentLevel, isMultiLine, output>>

(***************************************************************************)
(* Characters and the character classes of the regular expressions.        *)
(***************************************************************************)
LowerLetters ==
  <<"a","b","c","d","e","f","g","h","i","j","k","l","m",
    "n","o","p","q","r","s","t","u","v","w","x","y","z">>

UpperLetters ==
  <<"A","B","C","D","E","F","G","H","I","J","K","L","M",
    "N","O","P","Q","R","S","T","U","V","W","X","Y","Z">>

Range(s) ==
  {s[k] : k \in DOMAIN s}

\* /\s/ restricted to the white space the model draws: space, tab, newline
IsSpace(c) ==
  c \in {" ", "\t", "\n"}

\* /\d/
IsDigit(c) ==
  c \in {"0","1","2","3","4","5","6","7","8","9"}

\* /[a-zA-Z_]/
IsIdentStart(c) ==
  c \in Range(LowerLetters) \cup Range(UpperLetters) \cup {"_"}

\* /[a-zA-Z0-9_]/
IsIdentPart(c) ==
  IsIdentStart(c) \/ IsDigit(c)

\* /[+\-*/&]/
IsArithOp(c) ==
  c \in {"+", "-", "*", "/", "&"}

\* char === '=' || char === '!' || char === '>' || char === '<'
IsCompareStart(c) ==
  c \in {"=", "!", ">", "<"}

\* String.prototype.toUpperCase on one character
UpperChar(c) ==
  IF \E k \in 1..26 : LowerLetters[k] = c
  THEN UpperLetters[CHOOSE k \in 1..26 : LowerLetters[k] = c]
  ELSE c

\* String.prototype.toUpperCase
toUpperCase(s) ==
  [k \in 1..Len(s) |-> UpperChar(s[k])]

\* formula[i] with the 0-based index of the source
CharAt(f, k) ==
  f[k + 1]

TRUE_ ==
  <<"T","R","U","E">>

FALSE_ ==
  <<"F","A","L","S","E">>

(***************************************************************************)
(* The inner scanning loops shared by both lexers.  Each returns the text  *)
(* accumulated and the cursor after the loop.                              *)
(***************************************************************************)
RECURSIVE ScanField(_, _, _)
\* while (i < len && formula[i] !== '}') { value += formula[i]; i++ }
\* if (i < len) { value += formula[i]; i++ }
ScanField(f, k, value) ==
  IF k < Len(f) /\ CharAt(f, k) # "}"
  THEN ScanField(f, k + 1, Append(value, CharAt(f, k)))
  ELSE IF k < Len(f)
       THEN [value |-> Append(value, CharAt(f, k)), i |-> k + 1]
       ELSE [value |-> value, i |-> k]

RECURSIVE ScanString(_, _, _, _, _)
\* the while (i < len) loop of a string literal, with its escaped flag
ScanString(f, k, value, quote, escaped) ==
  IF ~(k < Len(f))
  THEN [value |-> value, i |-> k]
  ELSE IF escaped
       THEN ScanString(f, k + 1, Append(value, CharAt(f, k)), quote, FALSE)
       ELSE IF CharAt(f, k) = "\\"
            THEN ScanString(f, k + 1, Append(value, CharAt(f, k)), quote, TRUE)
            ELSE IF CharAt(f, k) = quote
                 THEN [value |-> Append(value, CharAt(f, k)), i |-> k + 1]
                 ELSE ScanString(f, k + 1, Append(value, CharAt(f, k)), quote, FALSE)

RECURSIVE ScanNumber(_, _, _)
\* while (i < len && (/\d/.test(formula[i]) || formula[i] === '.'))
ScanNumber(f, k, value) ==
  IF k < Len(f) /\ (IsDigit(CharAt(f, k)) \/ CharAt(f, k) = ".")
  THEN ScanNumber(f, k + 1, Append(value, CharAt(f, k)))
  ELSE [value |-> value, i |-> k]

\* if (i < len && formula[i] === '=') { value += formula[i]; i++ }
ScanCompare(f, k, value) ==
  IF k < Len(f) /\ CharAt(f, k) = "="
  THEN [value |-> Append(value, CharAt(f, k)), i |-> k + 1]
  ELSE [value |-> value, i |-> k]

RECURSIVE ScanIdent(_, _, _)
\* while (i < len && /[a-zA-Z0-9_]/.test(formula[i]))
ScanIdent(f, k, value) ==
  IF k < Len(f) /\ IsIdentPart(CharAt(f, k))
  THEN ScanIdent(f, k + 1, Append(value, CharAt(f, k)))
  ELSE [value |-> value, i |-> k]

RECURSIVE SkipSpace(_, _)
\* while (j < len && /\s/.test(formula[j])) j++
SkipSpace(f, j) ==
  IF j < Len(f) /\ IsSpace(CharAt(f, j))
  THEN SkipSpace(f, j + 1)
  ELSE j

RECURSIVE ScanSpace(_, _, _)
\* while (i < len && /\s/.test(formula[i])) { text += formula[i]; i++ }
ScanSpace(f, k, text) ==
  IF k < Len(f) /\ IsSpace(CharAt(f, k))
  THEN ScanSpace(f, k + 1, Append(text, CharAt(f, k)))
  ELSE [value |-> text, i |-> k]

(***************************************************************************)
(* Layout lexer: one iteration of the while loop of tokenize.  The result  *)
(* is the cursor after the iteration and the tokens it pushed.             *)
(***************************************************************************)
Token(type, value, start, end) ==
  [type |-> type, value |-> value, start |-> start, end |-> end]

\* IdentToken without the toUpperCase of a function name
IdentTokenFunctionVerbatim(f, start, s) ==
  IF s.i < Len(f) /\ CharAt(f, s.i) = "("
  THEN Token("function", s.value, start, s.i)
  ELSE IF toUpperCase(s.value) = TRUE_ \/ toUpperCase(s.value) = FALSE_
       THEN Token("number", toUpperCase(s.value), start, s.i)
       ELSE Token("unknown", s.value, start, s.i)

\* IdentToken pushing value, not upper, for a boolean
IdentTokenBooleanVerbatim(f, start, s) ==
  IF s.i < Len(f) /\ CharAt(f, s.i) = "("
  THEN Token("function", toUpperCase(s.value), start, s.i)
  ELSE IF toUpperCase(s.value) = TRUE_ \/ toUpperCase(s.value) = FALSE_
       THEN Token("number", s.value, start, s.i)
       ELSE Token("unknown", s.value, start, s.i)

\* the identifier branch of tokenize, after the identifier was scanned
IdentToken(f, start, s) ==
  IF s.i < Len(f) /\ CharAt(f, s.i) = "("
  THEN Token("function", toUpperCase(s.value), start, s.i)
  ELSE IF toUpperCase(s.value) = TRUE_ \/ toUpperCase(s.value) = FALSE_
       THEN Token("number", toUpperCase(s.value), start, s.i)
       ELSE Token("unknown", s.value, start, s.i)

\* SingleChar without its i++
SingleCharStuck(f, k, type) ==
  [i |-> k, push |-> <<Token(type, <<CharAt(f, k)>>, k, k + 1)>>]

\* a one-character token: tokens.push({ type, value: char, start, end: i + 1 }); i++
SingleChar(f, k, type) ==
  [i |-> k + 1, push |-> <<Token(type, <<CharAt(f, k)>>, k, k + 1)>>]

tokenizeStep(f, k) ==
  LET char == CharAt(f, k)
      One(type) == SingleChar(f, k, type)
      Scanned(type, s) == [i |-> s.i, push |-> <<Token(type, s.value, k, s.i)>>]
  IN  IF IsSpace(char) THEN [i |-> k + 1, push |-> <<>>]
      ELSE IF char = "{" THEN Scanned("field", ScanField(f, k + 1, <<char>>))
      ELSE IF char = "\"" \/ char = "'"
           THEN Scanned("string", ScanString(f, k + 1, <<char>>, char, FALSE))
      ELSE IF IsDigit(char) THEN Scanned("number", ScanNumber(f, k + 1, <<char>>))
      ELSE IF IsArithOp(char) THEN One("operator")
      ELSE IF IsCompareStart(char)
           THEN Scanned("operator", ScanCompare(f, k + 1, <<char>>))
      ELSE IF char = "(" THEN One("paren-open")
      ELSE IF char = ")" THEN One("paren-close")
      ELSE IF char = "," THEN One("comma")
      ELSE IF IsIdentStart(char)
           THEN LET s == ScanIdent(f, k + 1, <<char>>)
                IN  [i |-> s.i, push |-> <<IdentToken(f, k, s)>>]
      ELSE One("unknown")

RECURSIVE tokenizeFrom(_, _, _)
tokenizeFrom(f, k, toks) ==
  IF k < Len(f)
  THEN LET s == tokenizeStep(f, k) IN tokenizeFrom(f, s.i, toks \o s.push)
  ELSE toks

\* function tokenize(formula: string): Token[]
tokenize(f) ==
  tokenizeFrom(f, 0, <<>>)

(***************************************************************************)
(* Display lexer: one iteration of the while loop of                       *)
(* highlightAirtableFormula.                                               *)
(***************************************************************************)
HToken(text, type) ==
  [text |-> text, type |-> type]

\* the identifier branch of highlightAirtableFormula, after the scan
HighlightIdent(f, s) ==
  LET j == SkipSpace(f, s.i)
  IN  IF j < Len(f) /\ CharAt(f, j) = "("
      THEN [i |-> s.i, push |-> <<HToken(toUpperCase(s.value), "function")>>]
      ELSE IF toUpperCase(s.value) = TRUE_ \/ toUpperCase(s.value) = FALSE_
           THEN [i |-> j, push |-> <<HToken(toUpperCase(s.value), "number")>>]
           ELSE [i |-> j, push |-> <<HToken(s.value, "text")>>]

highlightStep(f, k) ==
  LET char == CharAt(f, k)
      One(type) == [i |-> k + 1, push |-> <<HToken(<<char>>, type)>>]
      Scanned(type, s) == [i |-> s.i, push |-> <<HToken(s.value, type)>>]
  IN  IF char = "{" THEN Scanned("field", ScanField(f, k + 1, <<char>>))
      ELSE IF char = "\"" \/ char = "'"
           THEN Scanned("string", ScanString(f, k + 1, <<char>>, char, FALSE))
      ELSE IF IsDigit(char) THEN Scanned("number", ScanNumber(f, k + 1, <<char>>))
      ELSE IF IsArithOp(char) THEN One("operator")
      ELSE IF IsCompareStart(char)
           THEN Scanned("operator", ScanCompare(f, k + 1, <<char>>))
      ELSE IF char = "(" \/ char = ")" \/ char = "," THEN One("punctuation")
      ELSE IF IsIdentStart(char)
           THEN HighlightIdent(f, ScanIdent(f, k + 1, <<char>>))
      ELSE IF IsSpace(char) THEN Scanned("text", ScanSpace(f, k + 1, <<char>>))
      ELSE One("text")

RECURSIVE highlightFrom(_, _, _)
highlightFrom(f, k, toks) ==
  IF k < Len(f)
  THEN LET s == highlightStep(f, k) IN highlightFrom(f, s.i, toks \o s.push)
  ELSE toks

\* export function highlightAirtableFormula(formula: string): HighlightedToken[]
highlightAirtableFormula(f) ==
  highlightFrom(f, 0, <<>>)

(***************************************************************************)
(* Pretty-printer: the emission pass of formatAirtableFormula.  The state  *)
(* of the pass is the text assembled so far, the indent counter and the    *)
(* multi-line flag.  Token indexes are 0-based as in the source.           *)
(***************************************************************************)
TokAt(toks, k) ==
  toks[k + 1]

RECURSIVE Repeat(_, _)
\* String.prototype.repeat
Repeat(c, n) ==
  IF n <= 0 THEN <<>> ELSE <<c>> \o Repeat(c, n - 1)

\* const indentChar = '\t'
indentChar ==
  "\t"

\* function addIndent()
addIndent(level) ==
  Repeat(indentChar, level)

RECURSIVE countLoop(_, _, _, _)
\* while (j < tokens.length && depth > 0) of countParameters
countLoop(toks, j, depth, paramCount) ==
  IF j < Len(toks) /\ depth > 0
  THEN LET t  == TokAt(toks, j).type
           d1 == IF t = "paren-open" THEN depth + 1 ELSE depth
           d2 == IF t = "paren-close" THEN d1 - 1 ELSE d1
           pc2 == IF d2 = 1 /\ t = "comma" THEN paramCount + 1 ELSE paramCount
       IN  countLoop(toks, j + 1, d2, pc2)
  ELSE paramCount

\* function countParameters(startIndex: number): number
countParameters(toks, startIndex) ==
  countLoop(toks, startIndex + 1, 1, 0)

\* function shouldBreakAfterParenOpen(index: number): boolean
shouldBreakAfterParenOpen(toks, index) ==
  countParameters(toks, index) > 0

EmitState(r, lvl, ml) ==
  [result |-> r, indentLevel |-> lvl, isMultiLine |-> ml]

\* Math.max(0, indentLevel - 1)
Max(a, b) ==
  IF a >= b THEN a ELSE b

\* case 'paren-open'
emitParenOpen(toks, k, st) ==
  IF shouldBreakAfterParenOpen(toks, k)
  THEN EmitState(st.result \o TokAt(toks, k).value \o <<"\n">> \o addIndent(st.indentLevel + 1),
                 st.indentLevel + 1, TRUE)
  ELSE EmitState(st.result \o TokAt(toks, k).value, st.indentLevel, st.isMultiLine)

\* emitParenClose without the reset of isMultiLine at indentLevel 0
emitParenCloseNoReset(toks, k, st) ==
  LET lvl == IF st.indentLevel > 0 THEN Max(0, st.indentLevel - 1) ELSE st.indentLevel
      brk == st.isMultiLine /\ ~(k > 0 /\ TokAt(toks, k - 1).type = "paren-open")
      r1  == IF brk THEN st.result \o <<"\n">> \o addIndent(lvl) ELSE st.result
  IN  EmitState(r1 \o TokAt(toks, k).value, lvl, st.isMultiLine)

\* case 'paren-close'
emitParenClose(toks, k, st) ==
  LET lvl == IF st.indentLevel > 0 THEN Max(0, st.indentLevel - 1) ELSE st.indentLevel
      brk == st.isMultiLine /\ ~(k > 0 /\ TokAt(toks, k - 1).type = "paren-open")
      r1  == IF brk THEN st.result \o <<"\n">> \o addIndent(lvl) ELSE st.result
      ml  == IF lvl = 0 THEN FALSE ELSE st.isMultiLine
  IN  EmitState(r1 \o TokAt(toks, k).value, lvl, ml)

\* case 'comma'
emitComma(toks, k, st) ==
  IF k + 1 < Len(toks) /\ TokAt(toks, k + 1).type # "paren-close"
  THEN EmitState(st.result \o TokAt(toks, k).value \o <<"\n">> \o addIndent(st.indentLevel),
                 st.indentLevel, st.isMultiLine)
  ELSE EmitState(st.result \o TokAt(toks, k).value, st.indentLevel, st.isMultiLine)

\* emitOperator without the space before the operator
emitOperatorNoSpaceBefore(toks, k, st) ==
  LET after == /\ k + 1 < Len(toks)
               /\ TokAt(toks, k + 1).type \notin {"paren-close", "comma", "operator"}
      r2 == st.result \o TokAt(toks, k).value
      r3 == IF after THEN Append(r2, " ") ELSE r2
  IN  EmitState(r3, st.indentLevel, st.isMultiLine)

\* case 'operator'
emitOperator(toks, k, st) ==
  LET before == /\ k > 0
                /\ TokAt(toks, k - 1).type \notin {"paren-open", "comma", "operator"}
                /\ LET lastChar == IF Len(st.result) > 0
                                   THEN st.result[Len(st.result)]
                                   ELSE "undefined"
                   IN  lastChar \notin {" ", "\n", "\t"}
      after  == /\ k + 1 < Len(toks)
                /\ TokAt(toks, k + 1).type \notin {"paren-close", "comma", "operator"}
      r1 == IF before THEN Append(st.result, " ") ELSE st.result
      r2 == r1 \o TokAt(toks, k).value
      r3 == IF after THEN Append(r2, " ") ELSE r2
  IN  EmitState(r3, st.indentLevel, st.isMultiLine)

\* case 'function', 'field', 'string', 'number', 'unknown'
emitVerbatim(toks, k, st) ==
  EmitState(st.result \o TokAt(toks, k).value, st.indentLevel, st.isMultiLine)

\* one iteration of while (i < tokens.length): the switch on token.type
emitToken(toks, k, st) ==
  LET t == TokAt(toks, k).type
  IN  IF t = "paren-open" THEN emitParenOpen(toks, k, st)
      ELSE IF t = "paren-close" THEN emitParenClose(toks, k, st)
      ELSE IF t = "comma" THEN emitComma(toks, k, st)
      ELSE IF t = "operator" THEN emitOperator(toks, k, st)
      ELSE emitVerbatim(toks, k, st)

RECURSIVE emitFrom(_, _, _)
emitFrom(toks, k, st) ==
  IF k < Len(toks)
  THEN emitFrom(toks, k + 1, emitToken(toks, k, st))
  ELSE st

(***************************************************************************)
(* Pretty-printer: the post-processing of the assembled text.              *)
(***************************************************************************)
RECURSIVE splitFrom(_, _, _)
splitFrom(s, k, cur) ==
  IF k > Len(s) THEN <<cur>>
  ELSE IF s[k] = "\n" THEN <<cur>> \o splitFrom(s, k + 1, <<>>)
  ELSE splitFrom(s, k + 1, Append(cur, s[k]))

\* result.split('\n')
split(s) ==
  splitFrom(s, 1, <<>>)

RECURSIVE join(_)
\* cleanedLines.join('\n')
join(lines) ==
  IF Len(lines) = 0 THEN <<>>
  ELSE IF Len(lines) = 1 THEN lines[1]
  ELSE lines[1] \o <<"\n">> \o join(Tail(lines))

RECURSIVE stripTrailingSpaces(_)
\* line.replace(/[ ]+$/, '')
stripTrailingSpaces(line) ==
  IF Len(line) > 0 /\ line[Len(line)] = " "
  THEN stripTrailingSpaces(SubSeq(line, 1, Len(line) - 1))
  ELSE line

\* [^ \t]
NotSpaceTab(c) ==
  c \notin {" ", "\t"}

\* the end (1-based, exclusive) of the longest run of \s starting at position p
RECURSIVE spaceRunEnd(_, _)
spaceRunEnd(s, p) ==
  IF p <= Len(s) /\ IsSpace(s[p]) THEN spaceRunEnd(s, p + 1) ELSE p

\* A match of /([^ \t])\s{2,}([^ \t])/ starting at position p: the position of
\* the closing [^ \t], or 0 when there is none.  \s{2,} is greedy and backtracks.
collapseMatch(s, p) ==
  IF p <= Len(s) /\ NotSpaceTab(s[p])
  THEN LET e == spaceRunEnd(s, p + 1)
           ends == {q \in (p + 3)..e : q <= Len(s) /\ NotSpaceTab(s[q])}
       IN  IF ends = {} THEN 0 ELSE CHOOSE q \in ends : \A r \in ends : r <= q
  ELSE 0

RECURSIVE collapseFrom(_, _)
collapseFrom(s, p) ==
  IF p > Len(s) THEN <<>>
  ELSE LET q == collapseMatch(s, p)
       IN  IF q > 0
           THEN <<s[p], " ", s[q]>> \o collapseFrom(s, q + 1)
           ELSE <<s[p]>> \o collapseFrom(s, p + 1)

\* cleaned.replace(/([^ \t])\s{2,}([^ \t])/g, '$1 $2')
collapseSpaces(line) ==
  collapseFrom(line, 1)

\* lines.map(line => ...)
cleanLine(line) ==
  collapseSpaces(stripTrailingSpaces(line))

\* A match of /\n\s*\n+/ starting at position p: the position of its last
\* character, or 0 when there is none.  \s* is greedy and backtracks.
blankMatch(s, p) ==
  IF p <= Len(s) /\ s[p] = "\n"
  THEN LET e == spaceRunEnd(s, p + 1)
           nls == {q \in (p + 1)..(e - 1) : s[q] = "\n"}
       IN  IF nls = {} THEN 0 ELSE CHOOSE q \in nls : \A r \in nls : r <= q
  ELSE 0

RECURSIVE blankFrom(_, _)
blankFrom(s, p) ==
  IF p > Len(s) THEN <<>>
  ELSE LET q == blankMatch(s, p)
       IN  IF q > 0
           THEN <<"\n">> \o blankFrom(s, q + 1)
           ELSE <<s[p]>> \o blankFrom(s, p + 1)

\* .replace(/\n\s*\n+/g, '\n')
removeBlankLines(s) ==
  blankFrom(s, 1)

RECURSIVE trimStart(_)
trimStart(s) ==
  IF Len(s) > 0 /\ IsSpace(s[1]) THEN trimStart(Tail(s)) ELSE s

RECURSIVE trimEnd(_)
trimEnd(s) ==
  IF Len(s) > 0 /\ IsSpace(s[Len(s)])
  THEN trimEnd(SubSeq(s, 1, Len(s) - 1))
  ELSE s

\* String.prototype.trim and .replace(/^\s+|\s+$/g, '')
trim(s) ==
  trimEnd(trimStart(s))

\* lines 288-301: split, clean each line, join, drop blank lines, trim
cleanUp(r) ==
  trim(removeBlankLines(join([k \in 1..Len(split(r)) |-> cleanLine(split(r)[k])])))

\* !formula without the trim
IsBlankUntrimmed(f) ==
  f = <<>>

\* !formula.trim()
IsBlank(f) ==
  trim(f) = <<>>

\* export function formatAirtableFormula(formula: string): string
formatAirtableFormula(f) ==
  IF IsBlank(f) THEN <<>>
  ELSE LET toks == tokenize(f)
       IN  IF Len(toks) = 0 THEN f
           ELSE cleanUp(emitFrom(toks, 0, EmitState(<<>>, 0, FALSE)).result)

(***************************************************************************)
(* The inputs: every string over an alphabet up to a length.               *)
(***************************************************************************)
MaxLen ==
  4

Strings(alphabet, n) ==
  UNION {[1..k -> alphabet] : k \in 0..n}

\* one character of each class the lexers tell apart
Alphabet ==
  {"a", "1", " ", "\n", "(", ")", ",", "=", "'", "\\", "{", "}", "#"}

(***************************************************************************)
(* The state machine: the display lexer runs on the formula, then          *)
(* formatAirtableFormula does (guard, layout lexer, emission pass, post-   *)
(* processing).  One action is one iteration of a loop of the source, or   *)
(* the code before or after a loop.                                        *)
(***************************************************************************)
InitWith(inputs) ==
  /\ formula \in inputs
  /\ pc = "highlight"
  /\ i = 0
  /\ htokens = <<>>
  /\ tokens = <<>>
  /\ result = <<>>
  /\ indentLevel = 0
  /\ isMultiLine = FALSE
  /\ output = <<>>

Init ==
  InitWith(Strings(Alphabet, MaxLen))

\* one iteration of while (i < len) of highlightAirtableFormula
HighlightStep ==
  /\ pc = "highlight"
  /\ i < Len(formula)
  /\ LET s == highlightStep(formula, i)
     IN  /\ i' = s.i
         /\ htokens' = htokens \o s.push
  /\ UNCHANGED <<formula, pc, tokens, result, indentLevel, isMultiLine, output>>

\* return tokens of highlightAirtableFormula
HighlightReturn ==
  /\ pc = "highlight"
  /\ ~(i < Len(formula))
  /\ pc' = "format"
  /\ i' = 0
  /\ UNCHANGED <<formula, htokens, tokens, result, indentLevel, isMultiLine, output>>

\* formatAirtableFormula up to the call of tokenize
FormatEnter ==
  /\ pc = "format"
  /\ IF IsBlank(formula)
     THEN /\ output' = <<>>
          /\ pc' = "done"
     ELSE /\ output' = output
          /\ pc' = "tokenize"
  /\ i' = 0
  /\ tokens' = <<>>
  /\ UNCHANGED <<formula, htokens, result, indentLevel, isMultiLine>>

\* one iteration of while (i < len) of tokenize
TokenizeStep ==
  /\ pc = "tokenize"
  /\ i < Len(formula)
  /\ LET s == tokenizeStep(formula, i)
     IN  /\ i' = s.i
         /\ tokens' = tokens \o s.push
  /\ UNCHANGED <<formula, pc, htokens, result, indentLevel, isMultiLine, output>>

\* return tokens of tokenize, and formatAirtableFormula up to its while loop
TokenizeReturn ==
  /\ pc = "tokenize"
  /\ ~(i < Len(formula))
  /\ IF Len(tokens) = 0
     THEN /\ output' = formula
          /\ pc' = "done"
     ELSE /\ output' = output
          /\ pc' = "emit"
  /\ i' = 0
  /\ result' = <<>>
  /\ indentLevel' = 0
  /\ isMultiLine' = FALSE
  /\ UNCHANGED <<formula, htokens, tokens>>

\* one iteration of while (i < tokens.length) of formatAirtableFormula
EmitStep ==
  /\ pc = "emit"
  /\ i < Len(tokens)
  /\ LET st == emitToken(tokens, i, EmitState(result, indentLevel, isMultiLine))
     IN  /\ result' = st.result
         /\ indentLevel' = st.indentLevel
         /\ isMultiLine' = st.isMultiLine
  /\ i' = i + 1
  /\ UNCHANGED <<formula, pc, htokens, tokens, output>>

\* the post-processing of formatAirtableFormula and its return
FormatReturn ==
  /\ pc = "emit"
  /\ ~(i < Len(tokens))
  /\ output' = cleanUp(result)
  /\ pc' = "done"
  /\ UNCHANGED <<formula, i, htokens, tokens, result, indentLevel, isMultiLine>>

Next ==
  \/ HighlightStep
  \/ HighlightReturn
  \/ FormatEnter
  \/ TokenizeStep
  \/ TokenizeReturn
  \/ EmitStep
  \/ FormatReturn

Spec ==
  Init /\ [][Next]_vars

(***************************************************************************)
(* Helpers of the properties.                                              *)
(***************************************************************************)
RECURSIVE ConcatTexts(_)
\* the texts of display tokens, concatenated in order
ConcatTexts(toks) ==
  IF Len(toks) = 0 THEN <<>> ELSE toks[1].text \o ConcatTexts(Tail(toks))

\* a string token that ended at its closing quote, not at the end of input:
\* scanned again with one more character after it, the scan stops before it
StringTerminated(v) ==
  ScanString(Append(v, "x"), 1, <<v[1]>>, v[1], FALSE).i = Len(v)

\* a field token that ended at its closing brace
FieldTerminated(v) ==
  Len(v) >= 2 /\ v[Len(v)] = "}"

\* nesting depth of the 0-based position k: the open-parens before it that
\* are not closed before it
RECURSIVE DepthAt(_, _)
DepthAt(toks, k) ==
  IF k <= 0 THEN 0
  ELSE DepthAt(toks, k - 1)
       + (IF TokAt(toks, k - 1).type = "paren-open" THEN 1
          ELSE IF TokAt(toks, k - 1).type = "paren-close" THEN -1 ELSE 0)

\* balanced parentheses and terminated string and field literals
Balanced(toks) ==
  /\ \A k \in 0..Len(toks) : DepthAt(toks, k) >= 0
  /\ DepthAt(toks, Len(toks)) = 0
  /\ \A k \in 1..Len(toks) :
       /\ toks[k].type = "string" => StringTerminated(toks[k].value)
       /\ toks[k].type = "field" => FieldTerminated(toks[k].value)

(***************************************************************************)
(* C1.  Round trip of the display lexer: once highlightAirtableFormula has *)
(* returned, the texts of its tokens, concatenated in order, are the input *)
(* formula.                                                                *)
(***************************************************************************)
C1_RoundTrip ==
  pc = "format" => ConcatTexts(htokens) = formula

(***************************************************************************)
(* C2.  Idempotence of the pretty-printer: when the formula has balanced   *)
(* parentheses and terminated literals, formatting the output of           *)
(* formatAirtableFormula once more gives the same output.                  *)
(***************************************************************************)
C2_Idempotent ==
  (pc = "done" /\ Balanced(tokenize(formula)))
    => formatAirtableFormula(output) = output

(***************************************************************************)
(* C3.  Fail-soft totality: on every input each loop iteration of          *)
(* highlightAirtableFormula, tokenize and the emission pass moves its      *)
(* cursor forward and no cursor passes the end of what it scans, so every  *)
(* step lowers a non-negative measure and the computation ends; it ends    *)
(* only when formatAirtableFormula has returned a string; and a string or  *)
(* field token that has no closing delimiter runs from its opening         *)
(* delimiter to the end of the input.                                      *)
(***************************************************************************)
C3_Advances ==
  /\ (pc = "highlight" /\ pc' = "highlight") => i' > i
  /\ (pc = "tokenize" /\ pc' = "tokenize") => i' > i
  /\ (pc = "emit" /\ pc' = "emit") => i' > i

\* the phases left, then the input left to the running loop
C3_Measure ==
  LET phase == CASE pc = "highlight" -> 4
                 [] pc = "format" -> 3
                 [] pc = "tokenize" -> 2
                 [] pc = "emit" -> 1
                 [] pc = "done" -> 0
      left  == CASE pc \in {"highlight", "tokenize"} -> Len(formula) - i
                 [] pc = "emit" -> Len(tokens) - i
                 [] OTHER -> 0
  IN  phase * (Len(formula) + 1) + left

C3_Bounded ==
  /\ pc \in {"highlight", "format", "tokenize", "emit", "done"}
  /\ pc \in {"highlight", "tokenize"} => i \in 0..Len(formula)
  /\ pc = "emit" => i \in 0..Len(tokens)
  /\ Len(tokens) <= Len(formula)
  /\ Len(htokens) <= Len(formula)

C3_Suffix(text) ==
  /\ Len(text) <= Len(formula)
  /\ text = SubSeq(formula, Len(formula) - Len(text) + 1, Len(formula))

C3_Unterminated ==
  /\ \A k \in 1..Len(tokens) :
       LET t == tokens[k]
           open == \/ t.type = "string" /\ ~StringTerminated(t.value)
                   \/ t.type = "field" /\ ~FieldTerminated(t.value)
       IN  open => /\ t.end = Len(formula)
                   /\ t.value = SubSeq(formula, t.start + 1, Len(formula))
                   /\ k = Len(tokens)
  /\ \A k \in 1..Len(htokens) :
       LET t == htokens[k]
           open == \/ t.type = "string" /\ ~StringTerminated(t.text)
                   \/ t.type = "field" /\ ~FieldTerminated(t.text)
       IN  open => /\ C3_Suffix(t.text)
                   /\ k = Len(htokens)

C3_FailSoft ==
  /\ [][C3_Advances /\ C3_Measure' < C3_Measure]_vars
  /\ [](C3_Bounded /\ C3_Unterminated)

C3_Witness ==
  /\ pc = "done"
  /\ Len(tokens) >= 2
  /\ tokens[Len(tokens)].type = "string"
  /\ ~StringTerminated(tokens[Len(tokens)].value)
  /\ Len(tokens[Len(tokens)].value) >= 2
  /\ htokens[Len(htokens)].type = "string"
  /\ DepthAt(tokens, Len(tokens)) # 0
  /\ output # <<>>

(***************************************************************************)
(* Inputs of the layout properties: parentheses, commas and one argument   *)
(* character.                                                              *)
(***************************************************************************)
MaxLenParen ==
  7

AlphabetParen ==
  {"(", ")", ",", "a"}

InitParen ==
  InitWith(Strings(AlphabetParen, MaxLenParen))

SpecParen ==
  InitParen /\ [][Next]_vars

\* the close-paren that matches the open-paren at the 0-based position o
MatchOf(toks, o) ==
  CHOOSE c \in (o + 1)..(Len(toks) - 1) :
    /\ TokAt(toks, c).type = "paren-close"
    /\ DepthAt(toks, c) = DepthAt(toks, o) + 1
    /\ \A d \in (o + 1)..(c - 1) :
         ~(TokAt(toks, d).type = "paren-close" /\ DepthAt(toks, d) = DepthAt(toks, o) + 1)

\* the pairs of matching parentheses, as <<open, close>> positions
Pairs(toks) ==
  {<<o, MatchOf(toks, o)>> : o \in {k \in 0..(Len(toks) - 1) : TokAt(toks, k).type = "paren-open"}}

\* the commas directly inside a pair, not inside a pair nested in it
TopCommas(toks, p) ==
  {m \in (p[1] + 1)..(p[2] - 1) :
     TokAt(toks, m).type = "comma" /\ DepthAt(toks, m) = DepthAt(toks, p[1]) + 1}

\* the pairs with two or more arguments
MultiPairs(toks) ==
  {p \in Pairs(toks) : TopCommas(toks, p) # {}}

\* the number of multi-argument pairs the position k lies strictly inside
MultiDepth(toks, k) ==
  Cardinality({p \in MultiPairs(toks) : p[1] < k /\ k < p[2]})

EndsWith(s, suffix) ==
  /\ Len(suffix) <= Len(s)
  /\ SubSeq(s, Len(s) - Len(suffix) + 1, Len(s)) = suffix

(***************************************************************************)
(* C4.  Zero- and one-argument calls are never broken: on a balanced       *)
(* input, after the emission pass has processed a parenthesis of a pair    *)
(* that encloses no top-level comma, the text ends with that parenthesis,  *)
(* with no newline or indent just before a `)`; so nothing was emitted     *)
(* after the `(` and no line break before the `)`.                         *)
(***************************************************************************)
C4_NeverBroken ==
  (pc = "emit" /\ i > 0 /\ Balanced(tokens)) =>
    \A p \in Pairs(tokens) \ MultiPairs(tokens) :
      /\ p[1] = i - 1 => EndsWith(result, <<"(">>)
      /\ p[2] = i - 1 =>
           /\ EndsWith(result, <<")">>)
           /\ result[Len(result) - 1] \notin {"\n", "\t"}

(***************************************************************************)
(* C5.  Layout of multi-argument calls: on a balanced input, when the      *)
(* emission pass is about to emit the first token of an argument of a      *)
(* call with two or more arguments, the text ends with a newline and one   *)
(* tab per enclosing multi-argument call, and after it has emitted the `)` *)
(* of such a call the text ends with a newline, one tab fewer, and `)`.    *)
(***************************************************************************)
C5_ArgStart(toks, k) ==
  /\ k > 0 /\ k < Len(toks)
  /\ TokAt(toks, k).type \notin {"comma", "paren-close"}
  /\ \E p \in MultiPairs(toks) : p[1] = k - 1 \/ (k - 1) \in TopCommas(toks, p)

C5_Layout ==
  (pc = "emit" /\ Balanced(tokens)) =>
    /\ C5_ArgStart(tokens, i) =>
         EndsWith(result, <<"\n">> \o Repeat("\t", MultiDepth(tokens, i)))
    /\ \A p \in MultiPairs(tokens) :
         p[2] = i - 1 =>
           EndsWith(result, <<"\n">> \o Repeat("\t", MultiDepth(tokens, p[2])) \o <<")">>)

(***************************************************************************)
(* C10.  Formatter state invariant: throughout the emission pass, on any   *)
(* token sequence, the indent counter is non-negative and the multi-line   *)
(* flag is true exactly when the indent counter is greater than 0.         *)
(***************************************************************************)
C10_StateInvariant ==
  pc = "emit" => /\ indentLevel \in Nat
                 /\ isMultiLine <=> indentLevel > 0

\* a nested broken call was entered and every level was left again, on an
\* input with more close-parens than open-parens
C10_Witness ==
  /\ pc = "emit"
  /\ i = Len(tokens)
  /\ indentLevel = 0
  /\ ~isMultiLine
  /\ DepthAt(tokens, Len(tokens)) < 0
  /\ Len(result) > 0
  /\ \E a, b \in 0..(Len(tokens) - 1) :
       /\ a < b
       /\ TokAt(tokens, a).type = "paren-open" /\ shouldBreakAfterParenOpen(tokens, a)
       /\ TokAt(tokens, b).type = "paren-open" /\ shouldBreakAfterParenOpen(tokens, b)
       /\ DepthAt(tokens, b) > DepthAt(tokens, a)

(***************************************************************************)
(* C6.  Empty input: formatAirtableFormula returns the empty string for    *)
(* the empty string and for every string of white space only, and          *)
(* highlightAirtableFormula returns no token for the empty string.         *)
(***************************************************************************)
C6_WhiteOnly(f) ==
  \A k \in 1..Len(f) : IsSpace(f[k])

C6_EmptyInput ==
  /\ (pc = "done" /\ C6_WhiteOnly(formula)) => output = <<>>
  /\ (pc # "highlight" /\ formula = <<>>) => htokens = <<>>

C6_Witness ==
  /\ pc = "done"
  /\ Len(formula) >= 2
  /\ C6_WhiteOnly(formula)
  /\ \E k \in 1..Len(formula) : formula[k] = "\n"
  /\ \E k \in 1..Len(formula) : formula[k] = " "
  /\ output = <<>>

(***************************************************************************)
(* Inputs of the boolean properties: words, so that true and False occur   *)
(* next to parentheses, white space and literal delimiters.                *)
(***************************************************************************)
MaxWords ==
  4

Words ==
  {<<"t","r","u","e">>, <<"F","a","l","s","e">>, <<"x">>, <<" ">>,
   <<"(">>, <<")">>, <<"'">>, <<"{">>, <<"}">>}

RECURSIVE Concat(_)
Concat(ws) ==
  IF Len(ws) = 0 THEN <<>> ELSE ws[1] \o Concat(Tail(ws))

InitWords ==
  InitWith({Concat(ws) : ws \in Strings(Words, MaxWords)})

SpecWords ==
  InitWords /\ [][Next]_vars

\* the end (0-based, exclusive) of the identifier that starts at position k
IdentEnd(f, k) ==
  CHOOSE e \in (k + 1)..Len(f) :
    /\ \A m \in k..(e - 1) : IsIdentPart(CharAt(f, m))
    /\ e < Len(f) => ~IsIdentPart(CharAt(f, e))

\* the first position at or after e that holds no white space
AfterSpace(f, e) ==
  CHOOSE j \in e..Len(f) :
    /\ \A m \in e..(j - 1) : IsSpace(CharAt(f, m))
    /\ j < Len(f) => ~IsSpace(CharAt(f, j))

\* the characters k..e-1 of f are an identifier that reads TRUE or FALSE
IsBoolean(f, k, e) ==
  /\ IsIdentStart(CharAt(f, k))
  /\ toUpperCase(SubSeq(f, k + 1, e)) \in {TRUE_, FALSE_}

\* a lexer is at the start of an identifier that reads TRUE or FALSE
AtBoolean(lexer) ==
  /\ pc = lexer
  /\ i < Len(formula)
  /\ IsBoolean(formula, i, IdentEnd(formula, i))

NoSpace(s) ==
  SelectSeq(s, LAMBDA c : ~IsSpace(c))

RECURSIVE ConcatValues(_)
ConcatValues(toks) ==
  IF Len(toks) = 0 THEN <<>> ELSE toks[1].value \o ConcatValues(Tail(toks))

(***************************************************************************)
(* C7 as stated.  Boolean normalization: in both lexers an identifier that *)
(* reads TRUE or FALSE in upper case, outside a string or field literal,   *)
(* is pushed with text TRUE or FALSE and kind number.                      *)
(***************************************************************************)
C7_NumberStep ==
  /\ AtBoolean("tokenize") =>
       LET e == IdentEnd(formula, i)
       IN  tokens' = Append(tokens,
             Token("number", toUpperCase(SubSeq(formula, i + 1, e)), i, e))
  /\ AtBoolean("highlight") =>
       LET e == IdentEnd(formula, i)
       IN  htokens' = Append(htokens,
             HToken(toUpperCase(SubSeq(formula, i + 1, e)), "number"))

C7_AlwaysNumber ==
  [][C7_NumberStep]_vars

(***************************************************************************)
(* C7 amended.  In both lexers an identifier that reads TRUE or FALSE in   *)
(* upper case, outside a string or field literal, is pushed with text TRUE *)
(* or FALSE; its kind is number, unless `(` follows it (directly for       *)
(* tokenize, after optional white space for highlightAirtableFormula),     *)
(* and then its kind is function.  The emission pass appends the upper-    *)
(* case text, and the output of formatAirtableFormula holds the texts of   *)
(* the tokens, in order, between its white space.                          *)
(***************************************************************************)
C7_Lexed ==
  /\ AtBoolean("tokenize") =>
       LET e == IdentEnd(formula, i)
           call == e < Len(formula) /\ CharAt(formula, e) = "("
       IN  tokens' = Append(tokens,
             Token(IF call THEN "function" ELSE "number",
                   toUpperCase(SubSeq(formula, i + 1, e)), i, e))
  /\ AtBoolean("highlight") =>
       LET e == IdentEnd(formula, i)
           j == AfterSpace(formula, e)
           call == j < Len(formula) /\ CharAt(formula, j) = "("
       IN  htokens' = Append(htokens,
             HToken(toUpperCase(SubSeq(formula, i + 1, e)),
                    IF call THEN "function" ELSE "number"))

C7_Emitted ==
  (/\ pc = "emit"
   /\ i < Len(tokens)
   /\ IsBoolean(formula, TokAt(tokens, i).start, TokAt(tokens, i).end))
    => result' = result \o toUpperCase(SubSeq(formula, TokAt(tokens, i).start + 1,
                                              TokAt(tokens, i).end))

C7_Output ==
  (pc = "done" /\ Len(tokens) > 0) => NoSpace(output) = NoSpace(ConcatValues(tokens))

C7_BooleanNormalized ==
  /\ [][C7_Lexed /\ C7_Emitted]_vars
  /\ [](C7_Output)

\* true and False were lexed, one before `(` and one not, and formatted
C7_Witness ==
  /\ pc = "done"
  /\ \E a, b \in 1..Len(tokens) :
       /\ tokens[a].type = "number" /\ tokens[a].value \in {TRUE_, FALSE_}
       /\ SubSeq(formula, tokens[a].start + 1, tokens[a].end) # tokens[a].value
       /\ tokens[b].type = "function" /\ tokens[b].value \in {TRUE_, FALSE_}
  /\ \E a, b \in 1..Len(htokens) :
       /\ htokens[a].type = "number" /\ htokens[a].text \in {TRUE_, FALSE_}
       /\ htokens[b].type = "function" /\ htokens[b].text \in {TRUE_, FALSE_}
  /\ \E k \in 1..Len(output) : output[k] = "T"

(***************************************************************************)
(* The two lexers compared: the display tokens without the white-space     *)
(* tokens, and the layout tokens with their kinds mapped to display kinds. *)
(***************************************************************************)
IsWhiteToken(t) ==
  t.type = "text" /\ \A k \in 1..Len(t.text) : IsSpace(t.text[k])

DisplayView(htoks) ==
  SelectSeq(htoks, LAMBDA t : ~IsWhiteToken(t))

DisplayKind(type) ==
  IF type \in {"paren-open", "paren-close", "comma"} THEN "punctuation"
  ELSE IF type = "unknown" THEN "text"
  ELSE type

LayoutView(toks) ==
  [k \in 1..Len(toks) |-> HToken(toks[k].value, DisplayKind(toks[k].type))]

\* tokenize has returned (or was not called, on a blank formula)
Tokenized ==
  pc \in {"emit", "done"}

\* an identifier token of the formula is followed by white space and then `(`
SpacedCall ==
  \E k \in 1..Len(tokens) :
    /\ IsIdentStart(CharAt(formula, tokens[k].start))
    /\ LET j == AfterSpace(formula, tokens[k].end)
       IN  j > tokens[k].end /\ j < Len(formula) /\ CharAt(formula, j) = "("

(***************************************************************************)
(* C8 as stated.  The two lexers agree: for every input, the display       *)
(* tokens without the white-space tokens are the layout tokens, text for   *)
(* text and kind for kind.                                                 *)
(***************************************************************************)
C8_AlwaysAgree ==
  Tokenized => DisplayView(htokens) = LayoutView(tokens)

(***************************************************************************)
(* C8 amended.  The two lexers agree on every input in which no identifier *)
(* is followed by white space and then `(`: there the display tokens       *)
(* without the white-space tokens are the layout tokens, text for text and *)
(* kind for kind.                                                          *)
(***************************************************************************)
C8_AgreeUnlessSpacedCall ==
  (Tokenized /\ ~SpacedCall) => DisplayView(htokens) = LayoutView(tokens)

\* no spaced call, and a function, a plain identifier and white space
C8_Witness ==
  /\ Tokenized
  /\ ~SpacedCall
  /\ Len(tokens) >= 3
  /\ Len(htokens) > Len(tokens)
  /\ \E k \in 1..Len(tokens) : tokens[k].type = "function"
  /\ \E k \in 1..Len(tokens) : tokens[k].type = "unknown"
  /\ DisplayView(htokens) = LayoutView(tokens)

(***************************************************************************)
(* C9.  Formatting changes only white space between tokens: the output of  *)
(* formatAirtableFormula, given to tokenize, has the kinds and texts of    *)
(* the tokens of the formula, in order.  Stated for the formulas with      *)
(* balanced parentheses and terminated literals, the well-formed part of   *)
(* the inputs the property covers.                                         *)
(***************************************************************************)
C9_SameTokens ==
  (pc = "done" /\ Balanced(tokens))
    => LayoutView(tokenize(output)) = LayoutView(tokens)

(***************************************************************************)
(* Inputs of the operator properties: operators of both classes next to    *)
(* white space, identifiers, parentheses, commas and string literals.      *)
(***************************************************************************)
MaxLenOps ==
  5

AlphabetOps ==
  {"a", "=", "+", " ", "\n", "(", ")", ",", "'"}

InitOps ==
  InitWith(Strings(AlphabetOps, MaxLenOps))

SpecOps ==
  InitOps /\ [][Next]_vars

\* the text of out between two tokens of it
Gap(out, a, b) ==
  SubSeq(out, a.end + 1, b.start)

\* the token t of out is the first thing on its line: only tabs lie between
\* it and the start of out or the newline before it
StartsLine(out, t) ==
  \E p \in 0..t.start :
    /\ p = 0 \/ out[p] = "\n"
    /\ \A m \in (p + 1)..t.start : out[m] = "\t"

\* in the text out, read by tokenize: each operator has one space before it
\* unless the token before it is `(`, `,` or an operator or it starts a line
SpacedBefore(out) ==
  LET toks == tokenize(out)
  IN  \A k \in 1..Len(toks) :
        (/\ toks[k].type = "operator"
         /\ k > 1 => toks[k - 1].type \notin {"paren-open", "comma", "operator"})
          => \/ StartsLine(out, toks[k])
             \/ k > 1 /\ Gap(out, toks[k - 1], toks[k]) = <<" ">>

\* in the text out, read by tokenize: each operator that has a token after
\* it, not `)`, `,` or an operator, has one space between itself and it
SpacedAfter(out) ==
  LET toks == tokenize(out)
  IN  \A k \in 1..(Len(toks) - 1) :
        (/\ toks[k].type = "operator"
         /\ toks[k + 1].type \notin {"paren-close", "comma", "operator"})
          => Gap(out, toks[k], toks[k + 1]) = <<" ">>

\* in the text out, read by tokenize: an operator that is the last token
\* has one space after it
SpacedAtEnd(out) ==
  LET toks == tokenize(out)
  IN  (Len(toks) > 0 /\ toks[Len(toks)].type = "operator")
        => /\ Len(out) > toks[Len(toks)].end
           /\ out[toks[Len(toks)].end + 1] = " "

(***************************************************************************)
(* C11 as stated.  Operator spacing: in the result of                      *)
(* formatAirtableFormula every operator token has exactly one space before *)
(* it, unless the token before it is an open-paren, a comma or an operator *)
(* or it starts a line, and exactly one space after it, unless the token   *)
(* after it is a close-paren, a comma or an operator.                      *)
(***************************************************************************)
C11_AlwaysSpaced ==
  pc = "done" =>
    /\ SpacedBefore(output)
    /\ SpacedAfter(output)
    /\ SpacedAtEnd(output)

(***************************************************************************)
(* C11.  Operator spacing: in the result of formatAirtableFormula every    *)
(* operator token has exactly one space before it, unless the token before *)
(* it is an open-paren, a comma or an operator or it starts a line, and    *)
(* exactly one space after it, unless the token after it is a close-paren, *)
(* a comma or an operator or it is the last token; whatever white space    *)
(* surrounded the operator in the input.                                   *)
(***************************************************************************)
C11_SpacedUnlessLast ==
  pc = "done" =>
    /\ SpacedBefore(output)
    /\ SpacedAfter(output)

\* an operator between two operands, written with nothing before it and a
\* space and a newline after it, comes out with one space on each side
C11_Witness ==
  /\ pc = "done"
  /\ LET otoks == tokenize(output)
     IN  /\ Len(otoks) = Len(tokens)
         /\ \E k \in 2..(Len(tokens) - 1) :
              /\ tokens[k].type = "operator"
              /\ tokens[k - 1].type \notin {"paren-open", "comma", "operator"}
              /\ tokens[k + 1].type \notin {"paren-close", "comma", "operator"}
              /\ Gap(formula, tokens[k - 1], tokens[k]) = <<>>
              /\ Gap(formula, tokens[k], tokens[k + 1]) = <<" ", "\n">>
              /\ otoks[k].type = "operator"
              /\ Gap(output, otoks[k - 1], otoks[k]) = <<" ">>
              /\ Gap(output, otoks[k], otoks[k + 1]) = <<" ">>

====
